---- MODULE Spec2Model ----
(***************************************************************************)
(* State-machine model of the Timekeeper web client (src/app.js): the      *)
(* document store (users, shifts, settings), the punch state machine, the  *)
(* pay-period window arithmetic and the admin / employee views built on    *)
(* them.                                                                   *)
(*                                                                         *)
(* Representation.                                                         *)
(*  - An instant (a JavaScript Date) is an integer number of seconds since *)
(*    the model's epoch, 00:00 UTC of day 0.  Day 1 stands for 2025-01-01. *)
(*  - A calendar date string 'YYYY-MM-DD' is its day number; the string    *)
(*    comparisons of the code (<, <=, >) on such strings are the integer   *)
(*    comparisons of the day numbers.                                      *)
(*  - A time field of a shift is a record: Empty for '', DateTimeStr(d, m) *)
(*    for 'YYYY-MM-DDTHH:MM' and TimeStr(m) for 'HH:MM' (what an           *)
(*    <input type="time"> yields); m is the minute of the day.             *)
(*  - The device's time zone is tz, minutes east of UTC (the code's        *)
(*    getTimezoneOffset() is -tz); daylight-saving changes are not         *)
(*    modelled.                                                            *)
(*  - Hours are kept as whole minutes (hours = minutes / 60) and pay as    *)
(*    whole cents, hourly rates as whole dollars.                          *)
(***************************************************************************)
EXTENDS Integers, Sequences, FiniteSets, TLC

VARIABLES
  now,                 \* the device clock, seconds since the model epoch (UTC)
  steps,               \* how many operations have run (bounded by MaxSteps)
  tz,                  \* the device's time zone, minutes east of UTC
  users,               \* db.collection('users'):  username -> user document
  shifts,              \* db.collection('shifts'): docId -> shift document
  settings,            \* db.collection('settings'): 'config' -> document
  payPeriodStartDate,  \* the global of the same name (app.js:35)
  view,                \* the admin's employee-details view (renderEmployeeDetails)
  last,                \* the operation that produced this state and its outcome
  calc,                \* results of the period computations (SpecPeriod only)
  inflight             \* operations between two of their store calls, by client

vars == <<now, steps, tz, users, shifts, settings, payPeriodStartDate, view, last, calc,
          inflight>>

----------------------------------------------------------------------------
(* Bounds of the model *)

MaxSteps == 6
MaxRows == 2
MaxPeriodIndex == 2
PeriodDaySpan == 30

----------------------------------------------------------------------------
(* Program constants *)

SecPerMin == 60
SecPerDay == 86400
PeriodDays == 14
PeriodLast == 13

----------------------------------------------------------------------------
(* Input domains *)

\* Time zones of the device (minutes east of UTC): New York and UTC.
TimeZones == {-300, 0}
\* The clock advances by half a minute or by a day.
ClockSteps == {30, 86400}
\* The first page load: day 21 (2025-01-21) at 00:59:30 UTC, which is still
\* day 20 in New York.
InitNow == 21 * SecPerDay + 59 * SecPerMin + 30
\* The employees with a session in localStorage (they logged in earlier; no
\* code ever invalidates a session), who may punch.
Sessions == {"alice", "bob"}
\* What the admin may type into the add-employee form and the rate input.
NewNames == {"alice", "admin"}
NewPassword == "password3"
\* Texts of the number inputs (the add-employee form's and the rate input's):
\* a number, or text that is no number, for which the input's value is ''.
NumText(v) == [k |-> "num", v |-> v]
NoNumber == [k |-> "nan", v |-> 0]
NewRates == {NumText(25), NumText(0 - 5), NoNumber}
\* Dates the admin may pick as pay-period start.
AnchorDates == {1, 15}

----------------------------------------------------------------------------
(* Strings held in time fields *)

Empty == [k |-> "empty", d |-> 0, m |-> 0]
DateTimeStr(d, m) == [k |-> "dt", d |-> d, m |-> m]
TimeStr(m) == [k |-> "hm", d |-> 0, m |-> m]

\* JavaScript truthiness of a string: '' is falsy.
Truthy(s) == s # Empty

\* Values the admin may type into an adjustment <input type="time">.
AdjInputs == {TimeStr(600)}

----------------------------------------------------------------------------
(* Date conversions *)

\* date.toISOString().split('T')[0]: the UTC calendar day of an instant.
toISODate(t) == t \div SecPerDay

\* getISODateString(date): the local calendar day of an instant.
getISODateString(t) == toISODate(t + tz * SecPerMin)

\* now.toISOString().substring(0, 16): the UTC date and time, cut to the minute.
toISOMinute(t) == DateTimeStr(t \div SecPerDay, (t % SecPerDay) \div SecPerMin)

\* new Date('YYYY-MM-DD'): a date-only string is read as UTC midnight.
parseDateOnly(d) == d * SecPerDay

\* Whether new Date(s) is a valid date: '' and 'HH:MM' are not.
validDate(s) == s.k = "dt"

\* new Date('YYYY-MM-DDTHH:MM'): a date-time string without zone is local time.
parseDateTime(s) == s.d * SecPerDay + s.m * SecPerMin - tz * SecPerMin

\* isNaN(parseFloat(input.value)) and, for the text of a number, parseFloat.
isNaNText(text) == text.k # "num"
parseFloat(text) == text.v

\* hashPassword: SHA-256, modelled as an injective tagging of the password.
hashPassword(p) == <<"sha256", p>>

----------------------------------------------------------------------------
(* The document store (MockFirestore) *)

\* doc.exists after get(): !!data.
exists(coll, id) == id \in DOMAIN coll

\* docRef.set(newData): upsert, replaces the document.
set(coll, id, data) == [k \in DOMAIN coll \cup {id} |-> IF k = id THEN data ELSE coll[k]]

\* docRef.update(updateData) throws when the document does not exist.
updateThrows(coll, id) == ~exists(coll, id)

\* { ...a, ...b }: the fields of b over those of a.
spread(a, b) == [f \in DOMAIN a \cup DOMAIN b |-> IF f \in DOMAIN b THEN b[f] ELSE a[f]]

\* Mutant: update writes the fields whether or not the document exists.
update_Upsert(coll, id, updateData) ==
  set(coll, id, spread(IF exists(coll, id) THEN coll[id] ELSE <<>>, updateData))

\* docRef.update(updateData): the collection afterwards; unchanged when it
\* throws, else the document with the given fields merged in.
update(coll, id, updateData) ==
  IF updateThrows(coll, id) THEN coll
  ELSE set(coll, id, spread(IF exists(coll, id) THEN coll[id] ELSE <<>>, updateData))

\* docRef.delete().
delete(coll, id) == [k \in DOMAIN coll \ {id} |-> coll[k]]

\* The key `${username}_${date}` of a shift document.
docIdOf(username, date) == <<username, date>>

----------------------------------------------------------------------------
(* Time arithmetic *)

\* Math.round(a / b) for b > 0: the nearest integer, halves upward.
mathRound(a, b) == (2 * a + b) \div (2 * b)

\* Mutant: the check diffMs < 0 is missing.
computeHours_Signed(startStr, endStr) ==
  IF ~validDate(startStr) \/ ~validDate(endStr) THEN 0
  ELSE mathRound(parseDateTime(endStr) - parseDateTime(startStr), SecPerMin)

\* computeHours(startStr, endStr), in minutes (the code returns minutes / 60).
\* An invalid date makes diffMs NaN.
computeHours(startStr, endStr) ==
  IF ~validDate(startStr) \/ ~validDate(endStr) THEN 0
  ELSE LET diff == parseDateTime(endStr) - parseDateTime(startStr)
       IN IF diff < 0 THEN 0 ELSE mathRound(diff, SecPerMin)

\* Math.round(hours * hourlyRate * 100), in cents, with hours = minutes / 60.
payOf(minutes, hourlyRate) == mathRound(minutes * hourlyRate * 100, 60)

\* formatTimeInput(isoStr): the local HH:MM of a date-time string, '' when the
\* string is empty or no valid date.
formatTimeInput(isoStr) ==
  IF ~Truthy(isoStr) THEN Empty
  ELSE IF ~validDate(isoStr) THEN Empty
  ELSE TimeStr(isoStr.m)

----------------------------------------------------------------------------
(* Pay periods *)

\* d.setDate(d.getDate() + n): n local days later, at the same local time.
addDays(t, n) == t + n * SecPerDay

\* periodStartISO and periodEndISO for a period index (app.js:550-556, 861-866).
periodStartISO(anchor, index) ==
  getISODateString(addDays(parseDateOnly(anchor), index * PeriodDays))

\* Mutant: the period end is 14 days after its start instead of 13.
periodEndISO_FourteenDays(anchor, index) ==
  getISODateString(addDays(addDays(parseDateOnly(anchor), index * PeriodDays), PeriodDays))

periodEndISO(anchor, index) ==
  getISODateString(addDays(addDays(parseDateOnly(anchor), index * PeriodDays), PeriodLast))

\* currentIndex of the employee dashboard (app.js:857-860): Math.floor twice.
currentIndexOf(today, anchor) ==
  LET diffDays == (parseDateOnly(today) - parseDateOnly(anchor)) \div SecPerDay
  IN diffDays \div PeriodDays

----------------------------------------------------------------------------
(* Queries and rows *)

RECURSIVE sortByDate(_)
\* shifts.sort(by date ascending) of a set of documents.
sortByDate(S) ==
  IF S = {} THEN <<>>
  ELSE LET m == CHOOSE x \in S : \A y \in S : x.date <= y.date
       IN <<m>> \o sortByDate(S \ {m})

\* Mutant: the query has no where clause; every user's shifts are returned.
getShiftsForUser_AllUsers(store, username) ==
  sortByDate({ [docId |-> k, username |-> store[k].username, date |-> store[k].date,
                timeIn |-> store[k].timeIn, timeOut |-> store[k].timeOut,
                adjTimeIn |-> store[k].adjTimeIn, adjTimeOut |-> store[k].adjTimeOut]
               : k \in DOMAIN store })

\* getShiftsForUser(username): where('username', '==', username), each document
\* with its docId, sorted by date.
getShiftsForUser(store, username) ==
  sortByDate({ [docId |-> k, username |-> store[k].username, date |-> store[k].date,
                timeIn |-> store[k].timeIn, timeOut |-> store[k].timeOut,
                adjTimeIn |-> store[k].adjTimeIn, adjTimeOut |-> store[k].adjTimeOut]
               : k \in {j \in DOMAIN store : store[j].username = username} })

\* a || b on strings.
orElse(a, b) == IF Truthy(a) THEN a ELSE b

\* Mutant: the raw punch wins over the adjustment.
actualStartStr_PunchFirst(shift) == orElse(shift.timeIn, shift.adjTimeIn)

\* actualStartStr and actualEndStr of a row (app.js:574-579, 873-878).
actualStartStr(shift) == orElse(shift.adjTimeIn, shift.timeIn)
actualEndStr(shift) == orElse(shift.adjTimeOut, shift.timeOut)

\* hours of a row, in minutes (app.js:581-588).
rowHours(shift) ==
  IF Truthy(actualStartStr(shift)) /\ Truthy(actualEndStr(shift))
  THEN computeHours(actualStartStr(shift), actualEndStr(shift)) ELSE 0

\* pay of a row, in cents.
rowPay(shift, hourlyRate) ==
  IF Truthy(actualStartStr(shift)) /\ Truthy(actualEndStr(shift))
  THEN payOf(computeHours(actualStartStr(shift), actualEndStr(shift)), hourlyRate) ELSE 0

\* One <tr> of the admin table: its data-doc-id, the cells and the two inputs.
tableRow(shift, hourlyRate) ==
  [docId |-> docIdOf(shift.username, shift.date),
   date |-> shift.date,
   adjIn |-> IF Truthy(shift.adjTimeIn) THEN formatTimeInput(shift.adjTimeIn) ELSE Empty,
   adjOut |-> IF Truthy(shift.adjTimeOut) THEN formatTimeInput(shift.adjTimeOut) ELSE Empty,
   hours |-> rowHours(shift),
   pay |-> rowPay(shift, hourlyRate)]

RECURSIVE sumField(_, _)
\* totalHours += hours and totalPay += pay over the rows.
sumField(rows, f) ==
  IF rows = <<>> THEN 0 ELSE Head(rows)[f] + sumField(Tail(rows), f)

\* Mutant: the total pay is the rounded pay of the summed hours.
totalPayOf_RoundAggregate(rows, hourlyRate) == payOf(sumField(rows, "hours"), hourlyRate)

\* totalHours and totalPay after the loop over the rows: each row's rounded pay
\* has been added to the running total.
totalHoursOf(rows) == sumField(rows, "hours")
totalPayOf(rows, hourlyRate) == sumField(rows, "pay")

\* s.date >= periodStartISO && s.date <= periodEndISO.
inPeriod(date, anchor, index) ==
  date >= periodStartISO(anchor, index) /\ date <= periodEndISO(anchor, index)

\* Mutant: shifts without both effective endpoints are left out of the table.
filterByPeriod_CompleteOnly(list, anchor, index) ==
  LET keep(s) == /\ inPeriod(s.date, anchor, index)
                 /\ Truthy(orElse(s.adjTimeIn, s.timeIn))
                 /\ Truthy(orElse(s.adjTimeOut, s.timeOut))
  IN SelectSeq(list, keep)

\* periodShifts: shifts.filter(...) of updateTable.
filterByPeriod(list, anchor, index) ==
  LET keep(s) == inPeriod(s.date, anchor, index)
  IN SelectSeq(list, keep)

\* Mutant: 'next' looks for a shift after the period's start.
hasNext_AfterStart(all, anchor, index) ==
  \E i \in 1..Len(all) : all[i].date > periodStartISO(anchor, index)

\* hasNext and hasPrev (app.js:609-610): shifts.some(...) over all the user's
\* shifts, not only the period's.
hasNext(all, anchor, index) ==
  \E i \in 1..Len(all) : all[i].date > periodEndISO(anchor, index)

hasPrev(all, anchor, index) ==
  \E i \in 1..Len(all) : all[i].date < periodStartISO(anchor, index)

\* updateTable(): the table of the view's user for the view's period index.
updateTable(store, anchor, username, hourlyRate, index) ==
  LET all == getShiftsForUser(store, username)
      periodShifts == filterByPeriod(all, anchor, index)
      rows == [i \in 1..Len(periodShifts) |-> tableRow(periodShifts[i], hourlyRate)]
  IN [open |-> TRUE,
      username |-> username,
      hourlyRate |-> hourlyRate,
      currentPeriodIndex |-> index,
      periodStart |-> periodStartISO(anchor, index),
      periodEnd |-> periodEndISO(anchor, index),
      rows |-> rows,
      totalHours |-> totalHoursOf(rows),
      totalPay |-> totalPayOf(rows, hourlyRate),
      nextDisabled |-> ~hasNext(all, anchor, index),
      prevDisabled |-> ~hasPrev(all, anchor, index)]

\* No employee selected: the details <div> is empty.
ClosedView == [open |-> FALSE]

\* The table rows of renderEmployeeDashboard(username) (app.js:845-898): the
\* user's shifts of the current pay period, with hours and pay.
dashboardRows(store, anchor, username, hourlyRate, today) ==
  LET periodShifts == filterByPeriod(getShiftsForUser(store, username), anchor,
                                     currentIndexOf(today, anchor))
  IN [i \in 1..Len(periodShifts) |->
        [date |-> periodShifts[i].date,
         hours |-> rowHours(periodShifts[i]),
         pay |-> rowPay(periodShifts[i], hourlyRate)]]

\* The table and the totals row of renderEmployeeDashboard(username).
dashboardTable(store, anchor, username, hourlyRate, today) ==
  LET rows == dashboardRows(store, anchor, username, hourlyRate, today)
      index == currentIndexOf(today, anchor)
  IN [username |-> username,
      hourlyRate |-> hourlyRate,
      periodStart |-> periodStartISO(anchor, index),
      periodEnd |-> periodEndISO(anchor, index),
      rows |-> rows,
      totalHours |-> totalHoursOf(rows),
      totalPay |-> totalPayOf(rows, hourlyRate)]

----------------------------------------------------------------------------
(* Initial state: initDatabase with the in-memory store *)

\* Nothing computed yet.
NoCalc == [dashboard |-> <<>>, table |-> <<>>, employee |-> <<>>, hours |-> <<>>]

Init ==
  /\ now = InitNow
  /\ steps = 0
  /\ tz \in TimeZones
  /\ users = [u \in {"admin", "alice", "bob"} |->
               [username |-> u,
                role |-> IF u = "admin" THEN "admin" ELSE "employee",
                hourlyRate |-> IF u = "admin" THEN 0 ELSE IF u = "alice" THEN 20 ELSE 22,
                passwordHash |-> hashPassword(IF u = "admin" THEN "admin"
                                              ELSE IF u = "alice" THEN "password1"
                                              ELSE "password2")]]
  /\ LET yDate == getISODateString(addDays(now, -1))
     IN shifts = [k \in {docIdOf("alice", yDate)} |->
                   [username |-> "alice", date |-> yDate,
                    timeIn |-> DateTimeStr(yDate, 540),
                    timeOut |-> DateTimeStr(yDate, 1020),
                    adjTimeIn |-> Empty, adjTimeOut |-> Empty]]
  /\ settings = [payPeriodStart |-> getISODateString(now)]
  /\ payPeriodStartDate = getISODateString(now)
  /\ view = ClosedView
  /\ last = [op |-> "init", user |-> "", result |-> "ok"]
  /\ calc = NoCalc
  /\ inflight = <<>>

----------------------------------------------------------------------------
(* Every run is cut after MaxSteps operations. *)

CountOp == steps < MaxSteps /\ steps' = steps + 1
Count == CountOp /\ UNCHANGED <<calc, inflight>>

----------------------------------------------------------------------------
(* The clock *)

Tick ==
  /\ Count
  /\ \E step \in ClockSteps : now' = now + step
  /\ last' = [op |-> "tick", user |-> "", result |-> "ok"]
  /\ UNCHANGED <<tz, users, shifts, settings, payPeriodStartDate, view>>

----------------------------------------------------------------------------
(* punchIn and punchOut *)

\* Mutant: the guard looks at timeOut instead of timeIn.
punchInResult_ChecksTimeOut(username) ==
  LET docId == docIdOf(username, getISODateString(now))
  IN IF exists(shifts, docId) /\ Truthy(shifts[docId].timeOut)
     THEN "AlreadyPunchedIn" ELSE "ok"

\* Mutant: the guard looks at the user's shifts of every day.
punchInResult_AnyDay(username) ==
  IF \E k \in DOMAIN shifts : shifts[k].username = username /\ Truthy(shifts[k].timeIn)
  THEN "AlreadyPunchedIn" ELSE "ok"

\* The outcome of punchIn(username): the alert, or "ok".
punchInResult(username) ==
  LET docId == docIdOf(username, getISODateString(now))
  IN IF exists(shifts, docId) /\ Truthy(shifts[docId].timeIn)
     THEN "AlreadyPunchedIn" ELSE "ok"

\* Mutant: the date field is the UTC date (toISOString), the key the local one.
punchInStore_UtcDate(username) ==
  LET date == getISODateString(now)
      docId == docIdOf(username, date)
  IN IF punchInResult(username) # "ok" THEN shifts
     ELSE set(shifts, docId, [username |-> username, date |-> toISODate(now),
                              timeIn |-> toISOMinute(now), timeOut |-> Empty,
                              adjTimeIn |-> Empty, adjTimeOut |-> Empty])

\* The shifts collection after punchIn(username).
punchInStore(username) ==
  LET date == getISODateString(now)
      docId == docIdOf(username, date)
  IN IF punchInResult(username) # "ok" THEN shifts
     ELSE set(shifts, docId, [username |-> username, date |-> date,
                              timeIn |-> toISOMinute(now), timeOut |-> Empty,
                              adjTimeIn |-> Empty, adjTimeOut |-> Empty])

punchIn(username) ==
  /\ Count
  /\ username \in Sessions
  /\ shifts' = punchInStore(username)
  /\ last' = [op |-> "punchIn", user |-> username, result |-> punchInResult(username)]
  /\ UNCHANGED <<now, tz, users, settings, payPeriodStartDate, view>>

\* Mutant: the check for a timeOut already set is missing.
punchOutResult_NoOutCheck(username) ==
  LET docId == docIdOf(username, getISODateString(now))
  IN IF ~exists(shifts, docId) \/ ~Truthy(shifts[docId].timeIn) THEN "NotPunchedIn"
     ELSE "ok"

\* The outcome of punchOut(username): the alert, or "ok".
punchOutResult(username) ==
  LET docId == docIdOf(username, getISODateString(now))
  IN IF ~exists(shifts, docId) \/ ~Truthy(shifts[docId].timeIn) THEN "NotPunchedIn"
     ELSE IF Truthy(shifts[docId].timeOut) THEN "AlreadyPunchedOut"
     ELSE "ok"

\* Mutant: punchOut closes every open shift of the user, not only today's.
punchOutStore_AllOpen(username) ==
  [k \in DOMAIN shifts |->
     IF shifts[k].username = username /\ Truthy(shifts[k].timeIn) /\ ~Truthy(shifts[k].timeOut)
     THEN [shifts[k] EXCEPT !.timeOut = toISOMinute(now)] ELSE shifts[k]]

\* Mutant: punchOut replaces the document (set) instead of merging (update).
punchOutStore_Set(username) ==
  LET docId == docIdOf(username, getISODateString(now))
  IN IF punchOutResult(username) # "ok" THEN shifts
     ELSE set(shifts, docId, [username |-> username, date |-> getISODateString(now),
                              timeIn |-> shifts[docId].timeIn, timeOut |-> toISOMinute(now),
                              adjTimeIn |-> Empty, adjTimeOut |-> Empty])

\* The shifts collection after punchOut(username).
punchOutStore(username) ==
  LET docId == docIdOf(username, getISODateString(now))
  IN IF punchOutResult(username) # "ok" THEN shifts
     ELSE update(shifts, docId, [timeOut |-> toISOMinute(now)])

punchOut(username) ==
  /\ Count
  /\ username \in Sessions
  /\ shifts' = punchOutStore(username)
  /\ last' = [op |-> "punchOut", user |-> username, result |-> punchOutResult(username)]
  /\ UNCHANGED <<now, tz, users, settings, payPeriodStartDate, view>>

----------------------------------------------------------------------------
(* Admin dashboard *)

\* Mutant: the form's rate input has no min attribute.
formValid_NoMin(uname, pwd, rate) ==
  uname # "" /\ pwd # "" /\ ~isNaNText(rate)

\* The add-employee form passes the browser's constraint validation, without
\* which no submit event is fired: the three inputs are required and the rate
\* input has type number and min 0 (app.js:357-362).
formValid(uname, pwd, rate) ==
  uname # "" /\ pwd # "" /\ ~isNaNText(rate) /\ parseFloat(rate) >= 0

\* Mutant: only employees count as existing usernames.
addEmployeeResult_EmployeesOnly(uname, pwd, rate) ==
  IF ~formValid(uname, pwd, rate) THEN "InvalidRate"
  ELSE IF exists(users, uname) /\ users[uname].role = "employee" THEN "DuplicateUsername"
  ELSE "ok"

\* The outcome of submitting the add-employee form: the validation message of
\* the form, the handler's message, or "ok".
addEmployeeResult(uname, pwd, rate) ==
  IF ~formValid(uname, pwd, rate) THEN "InvalidRate"
  ELSE IF exists(users, uname) THEN "DuplicateUsername"
  ELSE "ok"

\* The add-employee form's submit handler (app.js:367-395) with addEmployee.
AddEmployeeSubmit(uname, pwd, rate) ==
  /\ Count
  /\ users' = IF addEmployeeResult(uname, pwd, rate) # "ok" THEN users
               ELSE set(users, uname, [username |-> uname, role |-> "employee",
                                       hourlyRate |-> parseFloat(rate),
                                       passwordHash |-> hashPassword(pwd)])
  /\ last' = [op |-> "addEmployee", user |-> uname,
               result |-> addEmployeeResult(uname, pwd, rate)]
  /\ UNCHANGED <<now, tz, shifts, settings, payPeriodStartDate, view>>

\* Mutant: only the global is set; the settings document is not written.
updatePayPeriodStart_MemoryOnly(newDate) ==
  /\ Count
  /\ payPeriodStartDate' = newDate
  /\ last' = [op |-> "updatePayPeriodStart", user |-> "", result |-> "ok"]
  /\ UNCHANGED <<now, tz, users, shifts, settings, view>>

\* updatePayPeriodStart(newDate), from the date input's change handler.
updatePayPeriodStart(newDate) ==
  /\ Count
  /\ payPeriodStartDate' = newDate
  /\ settings' = [payPeriodStart |-> newDate]
  /\ last' = [op |-> "updatePayPeriodStart", user |-> "", result |-> "ok"]
  /\ UNCHANGED <<now, tz, users, shifts, view>>

\* getAllEmployees(): the usernames with role 'employee'.
getAllEmployees == {u \in DOMAIN users : users[u].role = "employee"}

\* renderEmployeeDetails(username), from the employee <select>.
renderEmployeeDetails(username) ==
  /\ Count
  /\ username \in getAllEmployees
  /\ view' = IF ~exists(users, username) THEN ClosedView
             ELSE updateTable(shifts, payPeriodStartDate, username,
                              users[username].hourlyRate, 0)
  /\ last' = [op |-> "renderEmployeeDetails", user |-> username, result |-> "ok"]
  /\ UNCHANGED <<now, tz, users, shifts, settings, payPeriodStartDate>>

\* Mutant: only today's shift of the user is deleted.
deleteEmployeeShifts_TodayOnly(username) ==
  [k \in DOMAIN shifts \ {docIdOf(username, getISODateString(now))} |-> shifts[k]]

\* The shifts collection after deleteEmployee(username): every document the
\* query where('username', '==', username) returns is deleted.
deleteEmployeeShifts(username) ==
  [k \in {j \in DOMAIN shifts : shifts[j].username # username} |-> shifts[k]]

\* The Delete Employee button of the details view, with deleteEmployee.
DeleteEmployeeClick ==
  /\ Count
  /\ view.open
  /\ users' = delete(users, view.username)
  /\ shifts' = deleteEmployeeShifts(view.username)
  /\ view' = ClosedView
  /\ last' = [op |-> "deleteEmployee", user |-> view.username, result |-> "ok"]
  /\ UNCHANGED <<now, tz, settings, payPeriodStartDate>>

\* The Previous Period and Next Period buttons.
PrevClick ==
  /\ Count
  /\ view.open /\ ~view.prevDisabled
  /\ view' = updateTable(shifts, payPeriodStartDate, view.username, view.hourlyRate,
                         view.currentPeriodIndex - 1)
  /\ last' = [op |-> "prevPeriod", user |-> view.username, result |-> "ok"]
  /\ UNCHANGED <<now, tz, users, shifts, settings, payPeriodStartDate>>

NextClick ==
  /\ Count
  /\ view.open /\ ~view.nextDisabled
  /\ view' = updateTable(shifts, payPeriodStartDate, view.username, view.hourlyRate,
                         view.currentPeriodIndex + 1)
  /\ last' = [op |-> "nextPeriod", user |-> view.username, result |-> "ok"]
  /\ UNCHANGED <<now, tz, users, shifts, settings, payPeriodStartDate>>

\* The Update Rate button (app.js:464-474): the table is refreshed with the
\* userData read when the view was rendered.
UpdateRateClick(newRate) ==
  /\ Count
  /\ view.open
  /\ IF isNaNText(newRate) \/ parseFloat(newRate) < 0
     THEN /\ UNCHANGED <<users, view>>
          /\ last' = [op |-> "updateRate", user |-> view.username, result |-> "InvalidRate"]
     ELSE IF updateThrows(users, view.username)
     THEN /\ users' = update(users, view.username, [hourlyRate |-> parseFloat(newRate)])
          /\ UNCHANGED view
          /\ last' = [op |-> "updateRate", user |-> view.username, result |-> "RecordNotFound"]
     ELSE /\ users' = update(users, view.username, [hourlyRate |-> parseFloat(newRate)])
          /\ view' = updateTable(shifts, payPeriodStartDate, view.username,
                                 view.hourlyRate, view.currentPeriodIndex)
          /\ last' = [op |-> "updateRate", user |-> view.username, result |-> "ok"]
  /\ UNCHANGED <<now, tz, shifts, settings, payPeriodStartDate>>

RECURSIVE saveRows(_, _)
\* The loop of the Save Adjustments handler over the table's rows: update()
\* throws on a missing document, which ends the handler.
saveRows(store, rows) ==
  IF rows = <<>> THEN [store |-> store, result |-> "ok"]
  ELSE LET row == Head(rows)
       IN IF updateThrows(store, row.docId)
          THEN [store |-> update(store, row.docId,
                                 [adjTimeIn |-> orElse(row.adjIn, Empty),
                                  adjTimeOut |-> orElse(row.adjOut, Empty)]),
                result |-> "RecordNotFound"]
          ELSE saveRows(update(store, row.docId,
                               [adjTimeIn |-> orElse(row.adjIn, Empty),
                                adjTimeOut |-> orElse(row.adjOut, Empty)]),
                        Tail(rows))

\* The rows as the handler reads them: the admin has typed val into one input
\* of row i (i = 0: into none).
editedRows(rows, i, field, val) ==
  [j \in 1..Len(rows) |->
     IF j = i THEN [rows[j] EXCEPT ![field] = val] ELSE rows[j]]

\* The Save Adjustments button (app.js:530-541).
SaveAdjustmentsClick(i, field, val) ==
  /\ Count
  /\ view.open
  /\ i \in 0..Len(view.rows)
  /\ LET done == saveRows(shifts, editedRows(view.rows, i, field, val))
     IN /\ shifts' = done.store
        /\ view' = IF done.result = "ok"
                   THEN updateTable(done.store, payPeriodStartDate, view.username,
                                    view.hourlyRate, view.currentPeriodIndex)
                   ELSE view
        /\ last' = [op |-> "saveAdjustments", user |-> view.username, result |-> done.result]
  /\ UNCHANGED <<now, tz, users, settings, payPeriodStartDate>>

----------------------------------------------------------------------------

Next ==
  \/ Tick
  \/ \E u \in Sessions : punchIn(u)
  \/ \E u \in Sessions : punchOut(u)
  \/ \E u \in NewNames, r \in NewRates : AddEmployeeSubmit(u, NewPassword, r)
  \/ \E d \in AnchorDates : updatePayPeriodStart(d)
  \/ \E u \in DOMAIN users : renderEmployeeDetails(u)
  \/ DeleteEmployeeClick
  \/ PrevClick
  \/ NextClick
  \/ \E r \in NewRates : UpdateRateClick(r)
  \/ \E i \in 0..MaxRows, f \in {"adjIn", "adjOut"}, v \in AdjInputs \cup {Empty} :
        SaveAdjustmentsClick(i, f, v)

Spec == Init /\ [][Next]_vars

----------------------------------------------------------------------------
(* The period computations on their own, over a range of dates, anchors,   *)
(* period indices and time zones.  The store is empty; the clock stands at *)
(* noon UTC of a day within PeriodDaySpan days of the anchor.              *)

PeriodTimeZones == {-300, 0, 120}
PeriodAnchors == {1, 6}
PeriodIndices == (0 - MaxPeriodIndex)..MaxPeriodIndex

InitPeriod ==
  /\ tz \in PeriodTimeZones
  /\ payPeriodStartDate \in PeriodAnchors
  /\ \E d \in (0 - PeriodDaySpan)..PeriodDaySpan :
        now = parseDateOnly(payPeriodStartDate + d) + 12 * 3600
  /\ steps = 0
  /\ users = <<>>
  /\ shifts = <<>>
  /\ settings = [payPeriodStart |-> payPeriodStartDate]
  /\ view = ClosedView
  /\ last = [op |-> "init", user |-> "", result |-> "ok"]
  /\ calc = NoCalc
  /\ inflight = <<>>

\* The current pay period of renderEmployeeDashboard (app.js:857-866).
DashboardPeriod ==
  /\ calc.dashboard = <<>>
  /\ LET today == getISODateString(now)
         currentIndex == currentIndexOf(today, payPeriodStartDate)
     IN calc' = [calc EXCEPT !.dashboard =
                   <<currentIndex, periodStartISO(payPeriodStartDate, currentIndex),
                     periodEndISO(payPeriodStartDate, currentIndex)>>]
  /\ UNCHANGED <<now, steps, tz, users, shifts, settings, payPeriodStartDate, view, last,
               inflight>>

\* The period bounds of updateTable for a period index (app.js:550-556).
TablePeriod(index) ==
  /\ index \notin DOMAIN calc.table
  /\ calc' = [calc EXCEPT !.table =
                [k \in DOMAIN calc.table \cup {index} |->
                   IF k = index
                   THEN <<periodStartISO(payPeriodStartDate, index),
                          periodEndISO(payPeriodStartDate, index)>>
                   ELSE calc.table[k]]]
  /\ UNCHANGED <<now, steps, tz, users, shifts, settings, payPeriodStartDate, view, last,
               inflight>>

NextPeriod ==
  \/ DashboardPeriod
  \/ \E index \in PeriodIndices : TablePeriod(index)

SpecPeriod == InitPeriod /\ [][NextPeriod]_vars

----------------------------------------------------------------------------
(* The hour and pay computations on their own, over stores that hold two   *)
(* shifts of one employee with a range of punch-out times and adjustments. *)

CalcRates == {20, 22}
CalcAnchors == {15}
CalcDates == {19, 20}
\* timeOut of a shift punched in at 09:00: none, the same minute, a minute
\* later, 17:15.
CalcEnds(d) == {Empty, DateTimeStr(d, 540), DateTimeStr(d, 541), DateTimeStr(d, 1035)}
\* Arguments of computeHours.
CalcStrings == {Empty, TimeStr(600), DateTimeStr(19, 540), DateTimeStr(19, 541),
                DateTimeStr(19, 1035), DateTimeStr(20, 0)}

InitCalc ==
  /\ now = InitNow
  /\ steps = 0
  /\ tz \in TimeZones
  /\ \E rate \in CalcRates :
        users = [u \in {"alice"} |->
                  [username |-> u, role |-> "employee", hourlyRate |-> rate,
                   passwordHash |-> hashPassword("password1")]]
  /\ \E out \in [CalcDates -> UNION {CalcEnds(d) : d \in CalcDates}],
        adj \in [CalcDates -> AdjInputs \cup {Empty}] :
        /\ \A d \in CalcDates : out[d] \in CalcEnds(d)
        /\ shifts = [k \in {docIdOf("alice", d) : d \in CalcDates} |->
                       [username |-> "alice", date |-> k[2],
                        timeIn |-> DateTimeStr(k[2], 540), timeOut |-> out[k[2]],
                        adjTimeIn |-> Empty, adjTimeOut |-> adj[k[2]]]]
  /\ payPeriodStartDate \in CalcAnchors
  /\ settings = [payPeriodStart |-> payPeriodStartDate]
  /\ view = ClosedView
  /\ last = [op |-> "init", user |-> "", result |-> "ok"]
  /\ calc = NoCalc
  /\ inflight = <<>>

\* renderEmployeeDashboard(username): the table and its totals row.
RenderEmployeeDashboard(username) ==
  /\ exists(users, username)
  /\ calc.employee = <<>>
  /\ calc' = [calc EXCEPT !.employee =
                dashboardTable(shifts, payPeriodStartDate, username,
                               users[username].hourlyRate, getISODateString(now))]
  /\ UNCHANGED <<now, steps, tz, users, shifts, settings, payPeriodStartDate, view, last,
               inflight>>

\* A call computeHours(startStr, endStr).
ComputeHoursCall(startStr, endStr) ==
  /\ calc' = [calc EXCEPT !.hours = <<startStr, endStr, computeHours(startStr, endStr)>>]
  /\ UNCHANGED <<now, steps, tz, users, shifts, settings, payPeriodStartDate, view, last,
               inflight>>

NextCalc ==
  \/ \E u \in DOMAIN users : renderEmployeeDetails(u)
  \/ \E u \in DOMAIN users : RenderEmployeeDashboard(u)
  \/ \E s, e \in CalcStrings : ComputeHoursCall(s, e)

SpecCalc == InitCalc /\ [][NextCalc]_vars

----------------------------------------------------------------------------
(* A second admin client of the same store: an employee is deleted there    *)
(* while this client's details view of the employee stays on screen.        *)

\* deleteEmployee(username) run by another client; this client's view is not
\* redrawn.
DeleteEmployeeElsewhere(username) ==
  /\ Count
  /\ username \in getAllEmployees
  /\ users' = delete(users, username)
  /\ shifts' = deleteEmployeeShifts(username)
  /\ last' = [op |-> "deleteEmployeeElsewhere", user |-> username, result |-> "ok"]
  /\ UNCHANGED <<now, tz, settings, payPeriodStartDate, view>>

NextStale ==
  \/ \E u \in Sessions : punchIn(u)
  \/ \E u \in DOMAIN users : renderEmployeeDetails(u)
  \/ \E u \in DOMAIN users : DeleteEmployeeElsewhere(u)
  \/ \E r \in NewRates : UpdateRateClick(r)
  \/ \E i \in 0..MaxRows, f \in {"adjIn", "adjOut"}, v \in AdjInputs \cup {Empty} :
        SaveAdjustmentsClick(i, f, v)

SpecStale == Init /\ [][NextStale]_vars

----------------------------------------------------------------------------
(* Punches at the granularity of single store calls: an employee has the    *)
(* dashboard open in two clients; each punch is docRef.get() and, after the *)
(* await, the check and docRef.set() or docRef.update().                    *)

Clients == {1, 2}
RaceUsers == {"alice"}

\* What a punch keeps of the document it has read: doc.exists and the fields
\* the checks look at.
snapshot(coll, id) ==
  [exists |-> exists(coll, id),
   timeIn |-> IF exists(coll, id) THEN coll[id].timeIn ELSE Empty,
   timeOut |-> IF exists(coll, id) THEN coll[id].timeOut ELSE Empty]

\* The operation of a client is over.
done(c) == [d \in DOMAIN inflight \ {c} |-> inflight[d]]

\* punchIn up to its await docRef.get() (app.js:917-920).
PunchInGet(c, username) ==
  /\ CountOp
  /\ c \notin DOMAIN inflight
  /\ LET date == getISODateString(now)
     IN inflight' = inflight @@ (c :> [op |-> "punchIn", username |-> username,
                                       date |-> date,
                                       doc |-> snapshot(shifts, docIdOf(username, date))])
  /\ last' = [op |-> "punchInGet", user |-> username, result |-> "ok"]
  /\ UNCHANGED <<now, tz, users, shifts, settings, payPeriodStartDate, view, calc>>

\* Mutant: the check on the document read is missing.
punchInSetStore_NoCheck(c) ==
  LET p == inflight[c]
      docId == docIdOf(p.username, p.date)
  IN set(shifts, docId, [username |-> p.username, date |-> p.date,
                              timeIn |-> toISOMinute(now), timeOut |-> Empty,
                              adjTimeIn |-> Empty, adjTimeOut |-> Empty])

\* The shifts collection after the rest of punchIn (app.js:921-938): the check
\* on the document read, and docRef.set() with the time of now.
punchInSetStore(c) ==
  LET p == inflight[c]
      docId == docIdOf(p.username, p.date)
  IN IF p.doc.exists /\ Truthy(p.doc.timeIn) THEN shifts
     ELSE set(shifts, docId, [username |-> p.username, date |-> p.date,
                              timeIn |-> toISOMinute(now), timeOut |-> Empty,
                              adjTimeIn |-> Empty, adjTimeOut |-> Empty])

PunchInSet(c) ==
  /\ c \in DOMAIN inflight
  /\ inflight[c].op = "punchIn"
  /\ shifts' = punchInSetStore(c)
  /\ inflight' = done(c)
  /\ last' = [op |-> "punchIn", user |-> inflight[c].username,
               result |-> IF inflight[c].doc.exists /\ Truthy(inflight[c].doc.timeIn)
                          THEN "AlreadyPunchedIn" ELSE "ok"]
  /\ UNCHANGED <<now, steps, tz, users, settings, payPeriodStartDate, view, calc>>

\* punchOut up to its await docRef.get() (app.js:948-951).
PunchOutGet(c, username) ==
  /\ CountOp
  /\ c \notin DOMAIN inflight
  /\ LET date == getISODateString(now)
     IN inflight' = inflight @@ (c :> [op |-> "punchOut", username |-> username,
                                       date |-> date,
                                       doc |-> snapshot(shifts, docIdOf(username, date))])
  /\ last' = [op |-> "punchOutGet", user |-> username, result |-> "ok"]
  /\ UNCHANGED <<now, tz, users, shifts, settings, payPeriodStartDate, view, calc>>

\* The rest of punchOut (app.js:952-963): the checks on the document read, and
\* docRef.update() with the time of now.
PunchOutUpdate(c) ==
  /\ c \in DOMAIN inflight
  /\ inflight[c].op = "punchOut"
  /\ LET p == inflight[c]
         docId == docIdOf(p.username, p.date)
         result == IF ~p.doc.exists \/ ~Truthy(p.doc.timeIn) THEN "NotPunchedIn"
                   ELSE IF Truthy(p.doc.timeOut) THEN "AlreadyPunchedOut"
                   ELSE IF updateThrows(shifts, docId) THEN "RecordNotFound"
                   ELSE "ok"
     IN /\ shifts' = IF result = "ok"
                      THEN update(shifts, docId, [timeOut |-> toISOMinute(now)])
                      ELSE shifts
        /\ last' = [op |-> "punchOut", user |-> p.username, result |-> result]
  /\ inflight' = done(c)
  /\ UNCHANGED <<now, steps, tz, users, settings, payPeriodStartDate, view, calc>>

NextRace ==
  \/ Tick
  \/ \E c \in Clients, u \in RaceUsers : PunchInGet(c, u)
  \/ \E c \in Clients : PunchInSet(c)
  \/ \E c \in Clients, u \in RaceUsers : PunchOutGet(c, u)
  \/ \E c \in Clients : PunchOutUpdate(c)
  \/ \E u \in RaceUsers : renderEmployeeDetails(u)
  \/ \E i \in 0..MaxRows, f \in {"adjIn", "adjOut"}, v \in AdjInputs \cup {Empty} :
        SaveAdjustmentsClick(i, f, v)

SpecRace == Init /\ [][NextRace]_vars

-----------------------------------------------------------------------------
(* Period navigation at the granularity of the click handlers: a click      *)
(* changes currentPeriodIndex and calls updateTable() without awaiting it;  *)
(* updateTable() clears the table, awaits the shifts query and only then    *)
(* renders the rows and sets the disabled state of the two buttons.         *)

\* A call of updateTable() that has cleared the table and awaits its query.
PendingUpdate == [op |-> "updateTable"]

\* Selecting an employee: renderEmployeeDetails builds a new details view with
\* its own currentPeriodIndex, table container and buttons; refreshes still
\* pending for the replaced view no longer affect what is shown.
OpenDetails(username) ==
  /\ CountOp
  /\ username \in getAllEmployees
  /\ view' = updateTable(shifts, payPeriodStartDate, username, users[username].hourlyRate, 0)
  /\ inflight' = <<>>
  /\ last' = [op |-> "renderEmployeeDetails", user |-> username, result |-> "ok"]
  /\ UNCHANGED <<now, tz, users, shifts, settings, payPeriodStartDate, calc>>

\* A button can be clicked when it is shown and not disabled.
clickable(disabled) == view.open /\ ~disabled

\* The synchronous part of a click: the index changes and updateTable() runs up
\* to its await, leaving the table container empty.
clickStart(delta, opName) ==
  /\ CountOp
  /\ view' = [view EXCEPT !.currentPeriodIndex = @ + delta, !.rows = <<>>,
                          !.totalHours = 0, !.totalPay = 0]
  /\ inflight' = Append(inflight, PendingUpdate)
  /\ last' = [op |-> opName, user |-> view.username, result |-> "pending"]
  /\ UNCHANGED <<now, tz, users, shifts, settings, payPeriodStartDate, calc>>

PrevClickStart == clickable(view.prevDisabled) /\ clickStart(-1, "prevClick")

NextClickStart == clickable(view.nextDisabled) /\ clickStart(1, "nextClick")

\* The rest of updateTable() after its await: it reads currentPeriodIndex as it
\* is now, renders the period and sets the buttons.
UpdateTableDone ==
  /\ inflight # <<>>
  /\ view.open
  /\ view' = updateTable(shifts, payPeriodStartDate, view.username, view.hourlyRate,
                         view.currentPeriodIndex)
  /\ inflight' = Tail(inflight)
  /\ last' = [op |-> "updateTable", user |-> view.username, result |-> "ok"]
  /\ UNCHANGED <<now, steps, tz, users, shifts, settings, payPeriodStartDate, calc>>

\* The page as the admin finds it: the store of Init with the pay period start
\* as it was last saved, today (initDatabase) or a date chosen earlier.
InitNav ==
  /\ now = InitNow
  /\ steps = 0
  /\ tz \in TimeZones
  /\ users = [u \in {"admin", "alice", "bob"} |->
               [username |-> u,
                role |-> IF u = "admin" THEN "admin" ELSE "employee",
                hourlyRate |-> IF u = "admin" THEN 0 ELSE IF u = "alice" THEN 20 ELSE 22,
                passwordHash |-> hashPassword(IF u = "admin" THEN "admin"
                                              ELSE IF u = "alice" THEN "password1"
                                              ELSE "password2")]]
  /\ LET yDate == getISODateString(addDays(now, -1))
     IN shifts = [k \in {docIdOf("alice", yDate)} |->
                   [username |-> "alice", date |-> yDate,
                    timeIn |-> DateTimeStr(yDate, 540),
                    timeOut |-> DateTimeStr(yDate, 1020),
                    adjTimeIn |-> Empty, adjTimeOut |-> Empty]]
  /\ payPeriodStartDate \in AnchorDates \cup {getISODateString(now)}
  /\ settings = [payPeriodStart |-> payPeriodStartDate]
  /\ view = ClosedView
  /\ last = [op |-> "init", user |-> "", result |-> "ok"]
  /\ calc = NoCalc
  /\ inflight = <<>>

NextNav ==
  \/ Tick
  \/ \E u \in Sessions : punchIn(u)
  \/ \E u \in DOMAIN users : OpenDetails(u)
  \/ PrevClickStart
  \/ NextClickStart
  \/ UpdateTableDone

SpecNav == InitNav /\ [][NextNav]_vars

-----------------------------------------------------------------------------
(* The punch buttons of the employee dashboard *)

\* Mutant: a shift without timeOut enables Punch Out whether or not timeIn is set,
\* and a completed shift enables Punch In again.
dashboardButtons_Loose(store, username, today) ==
  LET docId == docIdOf(username, today)
      hasShift == exists(store, docId)
  IN [username |-> username,
      punchInDisabled |-> hasShift /\ ~Truthy(store[docId].timeOut),
      punchOutDisabled |-> ~hasShift \/ Truthy(store[docId].timeOut)]

\* The disabled state of the two buttons as renderEmployeeDashboard sets it.
dashboardButtons(store, username, today) ==
  LET docId == docIdOf(username, today)
      hasShift == exists(store, docId)
  IN IF ~hasShift
     THEN [username |-> username, punchInDisabled |-> FALSE, punchOutDisabled |-> TRUE]
     ELSE IF Truthy(store[docId].timeIn) /\ ~Truthy(store[docId].timeOut)
     THEN [username |-> username, punchInDisabled |-> TRUE, punchOutDisabled |-> FALSE]
     ELSE [username |-> username, punchInDisabled |-> TRUE, punchOutDisabled |-> TRUE]

\* renderEmployeeDashboard(username) on page load.
RenderDashboardButtons(username) ==
  /\ CountOp
  /\ username \in Sessions
  /\ calc' = [calc EXCEPT !.dashboard = dashboardButtons(shifts, username, getISODateString(now))]
  /\ last' = [op |-> "renderEmployeeDashboard", user |-> username, result |-> "ok"]
  /\ UNCHANGED <<now, tz, users, shifts, settings, payPeriodStartDate, view, inflight>>

\* The dashboard shown is the one of this user.
shown(username) == calc.dashboard # <<>> /\ calc.dashboard.username = username

\* Click on Punch In: punchIn(username), then the dashboard is rendered again.
PunchInClick(username) ==
  /\ CountOp
  /\ shown(username) /\ ~calc.dashboard.punchInDisabled
  /\ shifts' = punchInStore(username)
  /\ calc' = [calc EXCEPT !.dashboard = dashboardButtons(shifts', username, getISODateString(now))]
  /\ last' = [op |-> "punchIn", user |-> username, result |-> punchInResult(username)]
  /\ UNCHANGED <<now, tz, users, settings, payPeriodStartDate, view, inflight>>

\* Click on Punch Out: punchOut(username), then the dashboard is rendered again.
PunchOutClick(username) ==
  /\ CountOp
  /\ shown(username) /\ ~calc.dashboard.punchOutDisabled
  /\ shifts' = punchOutStore(username)
  /\ calc' = [calc EXCEPT !.dashboard = dashboardButtons(shifts', username, getISODateString(now))]
  /\ last' = [op |-> "punchOut", user |-> username, result |-> punchOutResult(username)]
  /\ UNCHANGED <<now, tz, users, settings, payPeriodStartDate, view, inflight>>

NextDash ==
  \/ Tick
  \/ \E u \in Sessions : RenderDashboardButtons(u)
  \/ \E u \in Sessions : PunchInClick(u)
  \/ \E u \in Sessions : PunchOutClick(u)
  \/ \E u \in DOMAIN users : renderEmployeeDetails(u)
  \/ \E i \in 0..MaxRows, f \in {"adjIn", "adjOut"}, v \in AdjInputs \cup {Empty} :
        SaveAdjustmentsClick(i, f, v)

SpecDash == Init /\ [][NextDash]_vars

-----------------------------------------------------------------------------
(* Store writes that fail: with the network-backed store a set() may reject *)
(* (offline, permission denied); the rejection propagates out of the        *)
(* handler's await.                                                          *)

\* updatePayPeriodStart(newDate) when the settings write is rejected: the
\* assignment to the global has already run, the document is not written.
UpdatePayPeriodStartRejected(newDate) ==
  /\ Count
  /\ payPeriodStartDate' = newDate
  /\ last' = [op |-> "updatePayPeriodStart", user |-> "", result |-> "StorageFailure"]
  /\ UNCHANGED <<now, tz, users, shifts, settings, view>>

NextFail ==
  \/ Tick
  \/ \E u \in Sessions : punchIn(u)
  \/ \E d \in AnchorDates : updatePayPeriodStart(d)
  \/ \E d \in AnchorDates : UpdatePayPeriodStartRejected(d)
  \/ \E u \in DOMAIN users : renderEmployeeDetails(u)

SpecFail == Init /\ [][NextFail]_vars

----------------------------------------------------------------------------
(* Shorthands used by the properties *)

\* Today's document id of a user.
TodayId(u) == docIdOf(u, getISODateString(now))

\* The record is Clocked-In or Clocked-Out.
HasTimeIn(store, k) == exists(store, k) /\ store[k].timeIn # Empty
ClockedOut(store, k) == HasTimeIn(store, k) /\ store[k].timeOut # Empty

\* The step just taken was this operation by this user.
Did(op, u) == last'.op = op /\ last'.user = u

----------------------------------------------------------------------------
(* C1 *)

\* C1: for every user and day, a punchIn while today's shift record of the user
\* already has timeIn set is rejected as AlreadyPunchedIn and leaves the whole
\* shift store (every field of every record) as it was.
C1_SecondPunchInRejected ==
  [][\A u \in Sessions :
       (Did("punchIn", u) /\ HasTimeIn(shifts, TodayId(u)))
       => (last'.result = "AlreadyPunchedIn" /\ shifts' = shifts)]_vars

\* A second punchIn of the day has been rejected while other records exist.
C1_Witness ==
  /\ last.op = "punchIn" /\ last.result = "AlreadyPunchedIn"
  /\ HasTimeIn(shifts, TodayId(last.user))
  /\ Cardinality(DOMAIN shifts) >= 2

----------------------------------------------------------------------------
(* C2 *)

\* The current time cut to the minute, as an instant.
NowMinute == (now \div SecPerMin) * SecPerMin

\* A stored time string denotes the current minute: read the way the program
\* reads every time string (new Date(str)), it is the current time cut to the
\* minute.
IsCurrentTime(str) == validDate(str) /\ parseDateTime(str) = NowMinute

\* C2: punchOut changes the store only when today's record of the user exists
\* with timeIn set and timeOut unset, and then sets timeOut (and nothing else) to
\* the current time; with no record or no timeIn it is rejected as NotPunchedIn,
\* with timeOut already set as AlreadyPunchedOut, the store unchanged in both.
C2_PunchOut ==
  [][\A u \in Sessions :
       Did("punchOut", u) =>
         LET k == TodayId(u)
         IN IF ~HasTimeIn(shifts, k)
            THEN last'.result = "NotPunchedIn" /\ shifts' = shifts
            ELSE IF shifts[k].timeOut # Empty
            THEN last'.result = "AlreadyPunchedOut" /\ shifts' = shifts
            ELSE /\ last'.result = "ok"
                 /\ DOMAIN shifts' = DOMAIN shifts
                 /\ \A j \in DOMAIN shifts \ {k} : shifts'[j] = shifts[j]
                 /\ shifts'[k] = [shifts[k] EXCEPT !.timeOut = shifts'[k].timeOut]
                 /\ IsCurrentTime(shifts'[k].timeOut)]_vars

----------------------------------------------------------------------------
(* C3 *)

\* C3: once a shift is Clocked-Out (timeIn and timeOut set), no punchIn or
\* punchOut by any user on any day changes its timeIn or timeOut again.
C3_ClockedOutIsFinal ==
  [][(last'.op \in {"punchIn", "punchOut"}) =>
       \A k \in DOMAIN shifts :
         ClockedOut(shifts, k) =>
           /\ exists(shifts', k)
           /\ shifts'[k].timeIn = shifts[k].timeIn
           /\ shifts'[k].timeOut = shifts[k].timeOut]_vars

\* A punch-out attempt on today's shift, already Clocked-Out, at a later minute
\* than its timeOut.
C3_Witness ==
  /\ last.op = "punchOut" /\ last.result = "AlreadyPunchedOut"
  /\ ClockedOut(shifts, TodayId(last.user))
  /\ shifts[TodayId(last.user)].timeOut # toISOMinute(now)

----------------------------------------------------------------------------
(* C4 *)

\* C4: in every reachable state the shifts collection holds at most one record
\* per (username, date), and every record is stored under the key built from
\* its own username and date fields.
C4_OneShiftPerUserAndDay ==
  /\ \A k \in DOMAIN shifts : k = docIdOf(shifts[k].username, shifts[k].date)
  /\ \A j, k \in DOMAIN shifts :
       (shifts[j].username = shifts[k].username /\ shifts[j].date = shifts[k].date)
       => j = k

\* Two users have punched on a day whose local date differs from the UTC date,
\* and adjustments have been saved.
C4_Witness ==
  /\ last.op = "saveAdjustments" /\ last.result = "ok"
  /\ \E j, k \in DOMAIN shifts : shifts[j].username # shifts[k].username
  /\ \E k \in DOMAIN shifts : shifts[k].adjTimeIn # Empty
  /\ \E k \in DOMAIN shifts : shifts[k].timeIn.d # shifts[k].date

----------------------------------------------------------------------------
(* C5 *)

\* C5: a new day starts at NoShift: on a date with no record for the user,
\* punchIn succeeds (and creates the record with timeIn set) whatever state the
\* user's earlier shifts are in, and punchOut is rejected as NotPunchedIn.
C5_NewDayStartsAtNoShift ==
  [][\A u \in Sessions :
       ~exists(shifts, TodayId(u)) =>
         /\ Did("punchIn", u) =>
              (last'.result = "ok" /\ HasTimeIn(shifts', TodayId(u)))
         /\ Did("punchOut", u) =>
              (last'.result = "NotPunchedIn" /\ shifts' = shifts)]_vars

\* A punchIn has succeeded for a user whose earlier day's shift was left
\* Clocked-In, never punched out.
C5_Witness ==
  /\ last.op = "punchIn" /\ last.result = "ok"
  /\ \E k \in DOMAIN shifts :
       /\ shifts[k].username = last.user
       /\ shifts[k].date < getISODateString(now)
       /\ shifts[k].timeIn # Empty /\ shifts[k].timeOut = Empty

----------------------------------------------------------------------------
(* C6 *)

\* C6: after every successful punchIn for (user, today) the record stored under
\* that key has username = user, date = today, timeIn = the current time at
\* minute precision, and timeOut, adjTimeIn and adjTimeOut empty.
C6_PunchInRecord ==
  (last.op = "punchIn" /\ last.result = "ok") =>
    LET k == TodayId(last.user)
    IN /\ exists(shifts, k)
       /\ shifts[k].username = last.user
       /\ shifts[k].date = getISODateString(now)
       /\ IsCurrentTime(shifts[k].timeIn)
       /\ shifts[k].timeOut = Empty
       /\ shifts[k].adjTimeIn = Empty
       /\ shifts[k].adjTimeOut = Empty

----------------------------------------------------------------------------
(* C7 *)

\* The admin table has just been drawn from the store of this state.
Refreshed ==
  /\ view.open
  /\ last.result = "ok"
  /\ last.op \in {"renderEmployeeDetails", "prevPeriod", "nextPeriod", "updateRate",
                  "saveAdjustments"}

\* The effective range of a shift: the adjustment when set, else the punch.
EffectiveStart(sh) == IF sh.adjTimeIn # Empty THEN sh.adjTimeIn ELSE sh.timeIn
EffectiveEnd(sh) == IF sh.adjTimeOut # Empty THEN sh.adjTimeOut ELSE sh.timeOut

\* The hours (in minutes) of the effective range, 0 when an end is missing.
EffectiveHours(sh) ==
  IF EffectiveStart(sh) # Empty /\ EffectiveEnd(sh) # Empty
  THEN computeHours(EffectiveStart(sh), EffectiveEnd(sh)) ELSE 0

\* C7: adjustment precedence: in the admin table and in the employee dashboard
\* the hours and pay of every row are those of the effective range, adjTimeIn
\* when set and timeIn otherwise, adjTimeOut when set and timeOut otherwise,
\* whatever the order in which punch and adjustment were written.
C7_AdjustmentPrecedence ==
  /\ Refreshed =>
       \A i \in 1..Len(view.rows) :
         LET sh == shifts[view.rows[i].docId]
         IN /\ view.rows[i].hours = EffectiveHours(sh)
            /\ view.rows[i].pay = payOf(EffectiveHours(sh), view.hourlyRate)
  /\ \A u \in Sessions \cap DOMAIN users :
       LET rows == dashboardRows(shifts, payPeriodStartDate, u, users[u].hourlyRate,
                                 getISODateString(now))
       IN \A i \in 1..Len(rows) :
            LET sh == shifts[docIdOf(u, rows[i].date)]
            IN /\ rows[i].hours = EffectiveHours(sh)
               /\ rows[i].pay = payOf(EffectiveHours(sh), users[u].hourlyRate)

\* The table shows a shift that was punched in and out a minute apart and then
\* given an adjusted time in.
C7_Witness ==
  /\ Refreshed
  /\ \E i \in 1..Len(view.rows) :
       LET sh == shifts[view.rows[i].docId]
       IN /\ sh.adjTimeIn # Empty /\ sh.timeIn # Empty /\ sh.timeOut # Empty
          /\ computeHours(sh.timeIn, sh.timeOut) > 0

----------------------------------------------------------------------------
(* C8 *)

\* C8: for every date d and every anchor, the bounds computed for the period
\* index of d contain d.
C8_BoundsContainDate ==
  calc.dashboard # <<>> =>
    /\ calc.dashboard[2] <= getISODateString(now)
    /\ getISODateString(now) <= calc.dashboard[3]

----------------------------------------------------------------------------
(* C9 *)

\* C9: periods partition the calendar: the inclusive bounds of two different
\* period indices share no date, period k+1 starts on the day after period k
\* ends, and each date lies in the bounds of exactly one period index.
C9_PeriodsPartition ==
  /\ \A j, k \in DOMAIN calc.table :
       /\ calc.table[k][1] <= calc.table[k][2]
       /\ j # k => (calc.table[j][2] < calc.table[k][1] \/ calc.table[k][2] < calc.table[j][1])
       /\ k = j + 1 => calc.table[k][1] = calc.table[j][2] + 1
  /\ DOMAIN calc.table = PeriodIndices =>
       \A d \in calc.table[0 - MaxPeriodIndex][1]..calc.table[MaxPeriodIndex][2] :
         Cardinality({k \in PeriodIndices :
                        calc.table[k][1] <= d /\ d <= calc.table[k][2]}) = 1

\* The bounds of every period index, negative ones included, have been
\* computed on a device west of UTC.
C9_Witness ==
  /\ DOMAIN calc.table = PeriodIndices
  /\ tz < 0
  /\ calc.table[0 - MaxPeriodIndex][2] < payPeriodStartDate

----------------------------------------------------------------------------
(* C10 *)

\* C10: the rows shown for a period are exactly the user's shift records whose
\* date lies within the period's inclusive bounds, none missing, none from
\* outside the bounds or from another user, in ascending date order.
C10_RowsOfPeriod ==
  Refreshed =>
    /\ {view.rows[i].docId : i \in 1..Len(view.rows)} =
         {k \in DOMAIN shifts : /\ shifts[k].username = view.username
                                /\ view.periodStart <= shifts[k].date
                                /\ shifts[k].date <= view.periodEnd}
    /\ \A i \in 1..Len(view.rows) : view.rows[i].date = shifts[view.rows[i].docId].date
    /\ \A i, j \in 1..Len(view.rows) : i < j => view.rows[i].date < view.rows[j].date

\* The table shows two rows while the user has a shift outside the period and
\* another user has a shift inside it.
C10_Witness ==
  /\ Refreshed
  /\ Len(view.rows) >= 2
  /\ \E k \in DOMAIN shifts :
       shifts[k].username = view.username
       /\ (shifts[k].date < view.periodStart \/ shifts[k].date > view.periodEnd)
  /\ \E k \in DOMAIN shifts :
       /\ shifts[k].username # view.username
       /\ view.periodStart <= shifts[k].date /\ shifts[k].date <= view.periodEnd

----------------------------------------------------------------------------
(* C11 *)

\* The dates of the shift records of a user.
DatesOf(u) == {shifts[k].date : k \in {j \in DOMAIN shifts : shifts[j].username = u}}

\* C11: after the admin table is refreshed for a period, Next Period is enabled
\* iff the user has a shift dated strictly after the period's end, and Previous
\* Period iff the user has a shift dated strictly before the period's start,
\* whether or not the period itself has rows.
C11_NavigationAvailability ==
  Refreshed =>
    /\ ~view.nextDisabled <=> (\E d \in DatesOf(view.username) : d > view.periodEnd)
    /\ ~view.prevDisabled <=> (\E d \in DatesOf(view.username) : d < view.periodStart)

\* An empty period is shown, with Previous Period enabled because the user has
\* a shift before it and Next Period disabled, while another user has a shift
\* inside the period.
C11_Witness ==
  /\ Refreshed
  /\ Len(view.rows) = 0
  /\ ~view.prevDisabled /\ view.nextDisabled
  /\ \E k \in DOMAIN shifts :
       /\ shifts[k].username # view.username
       /\ view.periodStart <= shifts[k].date /\ shifts[k].date <= view.periodEnd

----------------------------------------------------------------------------
(* C12 *)

\* The shift records of the view's user within the view's period bounds.
ViewShifts ==
  {k \in DOMAIN shifts : /\ shifts[k].username = view.username
                         /\ view.periodStart <= shifts[k].date
                         /\ shifts[k].date <= view.periodEnd}

\* Both effective endpoints of a shift are present.
Complete(sh) == EffectiveStart(sh) # Empty /\ EffectiveEnd(sh) # Empty

RECURSIVE HoursOver(_)
\* The hours (in minutes) of a set of shift records, summed.
HoursOver(S) ==
  IF S = {} THEN 0
  ELSE LET k == CHOOSE x \in S : TRUE
       IN computeHours(EffectiveStart(shifts[k]), EffectiveEnd(shifts[k])) + HoursOver(S \ {k})

RECURSIVE PayOver(_, _)
\* The pay (in cents) of a set of shift records, each rounded, then summed.
PayOver(S, rate) ==
  IF S = {} THEN 0
  ELSE LET k == CHOOSE x \in S : TRUE
       IN payOf(computeHours(EffectiveStart(shifts[k]), EffectiveEnd(shifts[k])), rate)
          + PayOver(S \ {k}, rate)

\* C12: every shift of the period whose effective start or effective end is
\* missing is still listed, with hours 0 and pay 0, and the period totals are
\* those of the shifts with both endpoints alone.
C12_MissingEndpointRow ==
  Refreshed =>
    /\ \A k \in ViewShifts :
         ~Complete(shifts[k]) =>
           \E i \in 1..Len(view.rows) :
             /\ view.rows[i].docId = k
             /\ view.rows[i].hours = 0
             /\ view.rows[i].pay = 0
    /\ view.totalHours = HoursOver({k \in ViewShifts : Complete(shifts[k])})
    /\ view.totalPay = PayOver({k \in ViewShifts : Complete(shifts[k])}, view.hourlyRate)

\* The table lists an open shift (punched in, never out, no adjustment) next to
\* a completed one that carries the totals.
C12_Witness ==
  /\ Refreshed
  /\ view.totalHours > 0
  /\ \E k \in ViewShifts :
       /\ shifts[k].timeIn # Empty /\ shifts[k].timeOut = Empty
       /\ shifts[k].adjTimeIn = Empty /\ shifts[k].adjTimeOut = Empty

----------------------------------------------------------------------------
(* C13 *)

\* C13: the period's total pay is the sum over the period's rows of each row's
\* pay already rounded to the cent, and the total hours the sum of the rows'
\* hours, in the admin table and in the employee dashboard.
C13_RoundPerRowThenSum ==
  /\ Refreshed =>
       /\ view.totalPay = PayOver({k \in ViewShifts : Complete(shifts[k])}, view.hourlyRate)
       /\ view.totalHours = HoursOver({k \in ViewShifts : Complete(shifts[k])})
       /\ \A i \in 1..Len(view.rows) :
            view.rows[i].pay = payOf(view.rows[i].hours, view.hourlyRate)
  /\ calc.employee # <<>> =>
       LET e == calc.employee
           S == {k \in DOMAIN shifts : /\ shifts[k].username = e.username
                                        /\ e.periodStart <= shifts[k].date
                                        /\ shifts[k].date <= e.periodEnd
                                        /\ Complete(shifts[k])}
       IN /\ e.totalPay = PayOver(S, e.hourlyRate)
          /\ e.totalHours = HoursOver(S)

\* Both tables show two rows whose rounded pays sum to a total that differs
\* from the rounded pay of the total hours.
C13_Witness ==
  /\ Refreshed /\ calc.employee # <<>>
  /\ Len(view.rows) = 2 /\ Len(calc.employee.rows) = 2
  /\ view.totalPay # payOf(view.totalHours, view.hourlyRate)
  /\ calc.employee.totalPay # payOf(calc.employee.totalHours, calc.employee.hourlyRate)

----------------------------------------------------------------------------
(* C14 *)

\* The instant a time field of a shift stands for: a date-and-time string as
\* the program reads it, a time of day on the shift's date.
InstantAt(sh, str) ==
  IF str.k = "dt" THEN parseDateTime(str)
  ELSE sh.date * SecPerDay + str.m * SecPerMin - tz * SecPerMin

\* The whole minutes elapsed over the effective range of a shift, 0 when the
\* end precedes the start.
ElapsedMinutes(sh) ==
  LET diff == InstantAt(sh, EffectiveEnd(sh)) - InstantAt(sh, EffectiveStart(sh))
  IN IF diff < 0 THEN 0 ELSE mathRound(diff, SecPerMin)

\* C14: for every row with both effective endpoints present, the hours are the
\* whole elapsed minutes / 60 and the pay in cents is hours x hourlyRate x 100
\* rounded to the nearest integer.
C14_RowPay ==
  Refreshed =>
    \A i \in 1..Len(view.rows) :
      LET sh == shifts[view.rows[i].docId]
      IN Complete(sh) =>
           /\ view.rows[i].hours = ElapsedMinutes(sh)
           /\ view.rows[i].pay = payOf(ElapsedMinutes(sh), view.hourlyRate)

----------------------------------------------------------------------------
(* C15 *)

\* A string is a date-and-time string; its minute on the local time line.
IsTimestamp(str) == str.k = "dt"
MinuteOf(str) == str.d * 1440 + str.m

\* C15: computeHours(start, end) is never negative; it is 0 when end precedes
\* start or either argument is missing or unparseable, and otherwise the whole
\* minutes elapsed from start to end (/ 60), 0 for end = start.
C15_ComputeHours ==
  calc.hours # <<>> =>
    LET s == calc.hours[1]
        e == calc.hours[2]
        r == calc.hours[3]
    IN /\ r >= 0
       /\ (~IsTimestamp(s) \/ ~IsTimestamp(e)) => r = 0
       /\ (IsTimestamp(s) /\ IsTimestamp(e)) =>
            r = IF MinuteOf(e) < MinuteOf(s) THEN 0 ELSE MinuteOf(e) - MinuteOf(s)

\* computeHours has been called with an end that precedes the start.
C15_Witness ==
  /\ calc.hours # <<>>
  /\ IsTimestamp(calc.hours[1]) /\ IsTimestamp(calc.hours[2])
  /\ MinuteOf(calc.hours[2]) < MinuteOf(calc.hours[1])
  /\ calc.hours[3] = 0

----------------------------------------------------------------------------
(* C16 *)

\* C16: after deleteEmployee(u) the users collection has no record for u and
\* getShiftsForUser(u) returns the empty list, and the user records and shift
\* records of every other username are as they were.
C16_DeleteEmployee ==
  [][last'.op = "deleteEmployee" =>
       LET u == last'.user
       IN /\ ~exists(users', u)
          /\ getShiftsForUser(shifts', u) = <<>>
          /\ DOMAIN users' = DOMAIN users \ {u}
          /\ \A v \in DOMAIN users' : users'[v] = users[v]
          /\ \A k \in DOMAIN shifts :
               shifts[k].username # u => (exists(shifts', k) /\ shifts'[k] = shifts[k])
          /\ DOMAIN shifts' \subseteq DOMAIN shifts]_vars

\* An employee has been deleted, after at least three other operations, while
\* another employee's shift is on record.
C16_Witness ==
  /\ last.op = "deleteEmployee"
  /\ ~exists(users, last.user)
  /\ \E k \in DOMAIN shifts : shifts[k].username # last.user
  /\ steps >= 4

----------------------------------------------------------------------------
(* C17 *)

\* C17: submitting the add-employee form with a username that is already a key
\* of the users collection, an employee's or the admin's, is rejected as
\* DuplicateUsername and leaves the users collection, and so the existing
\* record's role, hourlyRate and passwordHash, unchanged.
C17_DuplicateUsername ==
  [][\A u \in NewNames, r \in NewRates :
       (exists(users, u) /\ formValid(u, NewPassword, r)
          /\ AddEmployeeSubmit(u, NewPassword, r))
       => (last'.result = "DuplicateUsername" /\ users' = users)]_vars

\* The admin's own username has been submitted and rejected.
C17_Witness ==
  /\ last.op = "addEmployee" /\ last.result = "DuplicateUsername"
  /\ last.user = "admin"
  /\ users["admin"].role = "admin"

----------------------------------------------------------------------------
(* C18 *)

\* The text of a rate input is no number or a negative number.
InvalidRateText(r) == isNaNText(r) \/ parseFloat(r) < 0

----------------------------------------------------------------------------
(* C19 *)

\* C19: once an hourly-rate update for an employee has completed and the table
\* has been refreshed, every row pay and the period total are computed with the
\* employee's new rate, the one now stored.
C19_RateChangeRetroactive ==
  (Refreshed /\ last.op = "updateRate") =>
    LET rate == users[view.username].hourlyRate
    IN /\ \A i \in 1..Len(view.rows) :
            view.rows[i].pay = payOf(view.rows[i].hours, rate)
       /\ view.totalPay = PayOver({k \in ViewShifts : Complete(shifts[k])}, rate)

----------------------------------------------------------------------------
(* C20 *)

\* C20: updatePayPeriodStart(d) sets the stored settings/config anchor and the
\* in-memory anchor to d and changes nothing else, no user record and no shift
\* record; every table drawn afterwards has its period bounds derived from the
\* anchor then in force.
C20_UpdatePayPeriodStartFrame ==
  /\ [][\A d \in AnchorDates :
          updatePayPeriodStart(d) =>
            /\ settings' = [payPeriodStart |-> d]
            /\ payPeriodStartDate' = d
            /\ users' = users /\ shifts' = shifts /\ view' = view]_vars
  /\ [](Refreshed =>
          /\ settings.payPeriodStart = payPeriodStartDate
          /\ view.periodStart = periodStartISO(settings.payPeriodStart, view.currentPeriodIndex)
          /\ view.periodEnd = periodEndISO(settings.payPeriodStart, view.currentPeriodIndex))

\* The anchor has been moved to a date picked by the admin, with shifts of two
\* users on record, and a table with rows has been drawn since.
C20_Witness ==
  /\ Refreshed
  /\ payPeriodStartDate \in AnchorDates
  /\ Len(view.rows) >= 1
  /\ \E j, k \in DOMAIN shifts : shifts[j].username # shifts[k].username

----------------------------------------------------------------------------
(* C21 *)

\* C21: saving adjustments never changes a shift's timeIn or timeOut, and
\* punchOut never changes a shift's adjTimeIn or adjTimeOut; an adjustment saved
\* while a shift is Clocked-In is still there after the punchOut that follows.
C21_AdjustmentsAndPunchesIndependent ==
  [][/\ last'.op = "saveAdjustments" =>
          /\ DOMAIN shifts' = DOMAIN shifts
          /\ \A k \in DOMAIN shifts :
               /\ shifts'[k].timeIn = shifts[k].timeIn
               /\ shifts'[k].timeOut = shifts[k].timeOut
     /\ last'.op = "punchOut" =>
          /\ DOMAIN shifts' = DOMAIN shifts
          /\ \A k \in DOMAIN shifts :
               /\ shifts'[k].adjTimeIn = shifts[k].adjTimeIn
               /\ shifts'[k].adjTimeOut = shifts[k].adjTimeOut]_vars

\* A punchOut has been accepted for a shift that was given an adjusted time in
\* while it was Clocked-In, and the adjustment is on record.
C21_Witness ==
  /\ last.op = "punchOut" /\ last.result = "ok"
  /\ shifts[TodayId(last.user)].adjTimeIn # Empty
  /\ shifts[TodayId(last.user)].timeOut # Empty

----------------------------------------------------------------------------
(* C22 *)

\* C22: a store update on a document id that is absent fails with
\* RecordNotFound and creates no document, the collection staying as it was;
\* saving adjustments or a rate for a shift or user deleted since the view was
\* rendered does not bring the record back.
C22_UpdateOnAbsentDocument ==
  [][/\ (last'.op = "updateRate" /\ last'.result # "InvalidRate"
          /\ ~exists(users, view.username))
        => (last'.result = "RecordNotFound" /\ users' = users /\ shifts' = shifts)
     /\ (last'.op = "saveAdjustments"
          /\ \E i \in 1..Len(view.rows) : ~exists(shifts, view.rows[i].docId))
        => (last'.result = "RecordNotFound" /\ DOMAIN shifts' = DOMAIN shifts
            /\ users' = users)
     /\ last'.result = "RecordNotFound" => shifts' = shifts]_vars

\* Save Adjustments has failed on the rows of an employee who was deleted by
\* another client after the table was drawn.
C22_Witness ==
  /\ last.op = "saveAdjustments" /\ last.result = "RecordNotFound"
  /\ view.open /\ Len(view.rows) >= 1
  /\ ~exists(users, view.username)
  /\ \A i \in 1..Len(view.rows) : ~exists(shifts, view.rows[i].docId)

----------------------------------------------------------------------------
(* C23 *)

\* C23: pressing Save Adjustments when no adjustment input of the displayed
\* rows was edited leaves every stored adjTimeIn and adjTimeOut as it was.
C23_SaveWithoutEditKeepsAdjustments ==
  [][(\E f \in {"adjIn", "adjOut"}, v \in AdjInputs \cup {Empty} :
        SaveAdjustmentsClick(0, f, v))
     => \A k \in DOMAIN shifts :
          /\ exists(shifts', k)
          /\ shifts'[k].adjTimeIn = shifts[k].adjTimeIn
          /\ shifts'[k].adjTimeOut = shifts[k].adjTimeOut]_vars

----------------------------------------------------------------------------
(* C24 *)

\* C24: an adjustment saved by the admin is stored as a date-and-time string
\* on the shift's date, like a punch, and after saving an adjusted time in for
\* a Clocked-Out shift the row's hours are the elapsed minutes from it to the
\* effective end (/ 60), 0 only when that end precedes it.
C24_AdjustmentStoredAsTimestamp ==
  (Refreshed /\ last.op = "saveAdjustments") =>
    \A i \in 1..Len(view.rows) :
      LET sh == shifts[view.rows[i].docId]
      IN /\ sh.adjTimeIn # Empty =>
              (IsTimestamp(sh.adjTimeIn) /\ sh.adjTimeIn.d = sh.date)
         /\ sh.adjTimeOut # Empty =>
              (IsTimestamp(sh.adjTimeOut) /\ sh.adjTimeOut.d = sh.date)
         /\ (sh.adjTimeIn # Empty /\ ClockedOut(shifts, view.rows[i].docId)) =>
              view.rows[i].hours = ElapsedMinutes(sh)

----------------------------------------------------------------------------
(* C25 *)

\* A field of a record that was set is empty afterwards, or the record is gone.
Cleared(k, f) == shifts[k][f] # Empty /\ (~exists(shifts', k) \/ shifts'[k][f] = Empty)

\* C25 (as stated): when punch operations for the same (user, date) interleave
\* at the granularity of single store calls, a timeIn that has been set is
\* never overwritten with a different value and a timeOut or adjustment that
\* has been set is never cleared back to empty.
C25_InterleavedPunchesKeepFields ==
  [][last'.op \in {"punchIn", "punchOut"} =>
       \A k \in DOMAIN shifts :
         /\ shifts[k].timeIn # Empty => (exists(shifts', k) /\ shifts'[k].timeIn = shifts[k].timeIn)
         /\ ~Cleared(k, "timeOut")
         /\ ~Cleared(k, "adjTimeIn")
         /\ ~Cleared(k, "adjTimeOut")]_vars

\* The step completes a punchIn of some client whose get found no record
\* under key k.
StalePunchIn(k) ==
  \E c \in DOMAIN inflight :
    /\ c \notin DOMAIN inflight'
    /\ inflight[c].op = "punchIn"
    /\ ~inflight[c].doc.exists
    /\ docIdOf(inflight[c].username, inflight[c].date) = k

\* C25 (amended): under such interleavings a timeIn that has been set is never
\* cleared back to empty, and a punch whose get saw the record never changes
\* its timeIn nor clears its timeOut or an adjustment; only the set of a
\* punchIn whose get preceded the creation of the record replaces the record.
C25_OnlyStalePunchInOverwrites ==
  [][last'.op \in {"punchIn", "punchOut"} =>
       \A k \in DOMAIN shifts :
         /\ ~Cleared(k, "timeIn")
         /\ (\/ shifts'[k].timeIn # shifts[k].timeIn
             \/ Cleared(k, "timeOut") \/ Cleared(k, "adjTimeIn") \/ Cleared(k, "adjTimeOut"))
            => StalePunchIn(k)]_vars

\* A punchIn whose get preceded the creation of today's record has completed
\* and replaced the record: another client still holds the record it had read,
\* with a different timeIn.
C25_Witness ==
  /\ last.op = "punchIn" /\ last.result = "ok"
  /\ \E c \in DOMAIN inflight :
       LET k == docIdOf(inflight[c].username, inflight[c].date)
       IN /\ inflight[c].doc.exists
          /\ exists(shifts, k)
          /\ inflight[c].doc.timeIn # shifts[k].timeIn

\* ---------------------------------------------------------------------------
\* C26  Every shift record belongs to an existing user: the username of each
\* record in shifts is the key of a record in users, also after an employee
\* has been deleted while that employee's dashboard is still open.
C26_NoOrphanShift ==
  \A k \in DOMAIN shifts : exists(users, shifts[k].username)

\* ---------------------------------------------------------------------------
\* C27  Period navigation in the admin view is bounded by the data: whatever
\* the Previous Period and Next Period clicks, also one made before the refresh
\* of the previous click has finished, a positive currentPeriodIndex is never
\* past the period of the user's latest shift and a negative one never before
\* the period of the earliest shift (and the index is 0 without shifts).
C27_NavigationBounded ==
  view.open =>
    LET D == DatesOf(view.username)
        i == view.currentPeriodIndex
    IN /\ i > 0 => \E d \in D : d >= periodStartISO(payPeriodStartDate, i)
       /\ i < 0 => \E d \in D : d <= periodEndISO(payPeriodStartDate, i)

\* ---------------------------------------------------------------------------
\* C28  When the employee dashboard has just been rendered, Punch In is enabled
\* iff punchIn would be accepted for today's record, Punch Out is enabled iff
\* punchOut would be accepted, and the two buttons are never both enabled.
C28_ButtonsMirrorPunchState ==
  last.op \in {"renderEmployeeDashboard", "punchIn", "punchOut"} =>
    LET b == calc.dashboard
    IN /\ b.username = last.user
       /\ ~b.punchInDisabled <=> punchInResult(b.username) = "ok"
       /\ ~b.punchOutDisabled <=> punchOutResult(b.username) = "ok"
       /\ b.punchInDisabled \/ b.punchOutDisabled

\* The dashboard rendered after a punch-in on a later day than a completed
\* shift: Punch Out enabled, Punch In disabled.
C28_Witness ==
  /\ last.op = "punchIn" /\ last.result = "ok"
  /\ ~calc.dashboard.punchOutDisabled /\ calc.dashboard.punchInDisabled
  /\ \E k \in DOMAIN shifts : k # TodayId(last.user) /\ ClockedOut(shifts, k)

\* ---------------------------------------------------------------------------
\* C29  punchIn(u) and punchOut(u) write only the shift record of (u, today):
\* every other shift record, every user record and the settings are unchanged
\* by the step, so a shift still Clocked-In on a later day is never made
\* Clocked-Out by a punch.
C29_PunchFrame ==
  [][last'.op \in {"punchIn", "punchOut"} =>
       LET today == docIdOf(last'.user, getISODateString(now))
       IN /\ users' = users /\ settings' = settings
          /\ payPeriodStartDate' = payPeriodStartDate
          /\ DOMAIN shifts' \subseteq DOMAIN shifts \cup {today}
          /\ \A k \in DOMAIN shifts \ {today} :
                /\ exists(shifts', k) /\ shifts'[k] = shifts[k]
                /\ ~ClockedOut(shifts, k) => ~ClockedOut(shifts', k)]_vars

\* A punch-out has been accepted today while a shift of the same user from an
\* earlier day is still Clocked-In.
C29_Witness ==
  /\ last.op = "punchOut" /\ last.result = "ok"
  /\ \E k \in DOMAIN shifts :
       /\ k # TodayId(last.user) /\ shifts[k].username = last.user
       /\ HasTimeIn(shifts, k) /\ ~ClockedOut(shifts, k)

\* ---------------------------------------------------------------------------
\* C30  Between operations the in-memory pay period start equals the
\* payPeriodStart stored in settings/config, also after an
\* updatePayPeriodStart whose store write failed.
C30_AnchorMatchesStore ==
  payPeriodStartDate = settings.payPeriodStart

====
